---- MODULE Spec2Model ----
(***************************************************************************)
(* Model of the e-commerce backend: the products and orders routers, the  *)
(* lazy store connection, and the document store they work against.       *)
(*                                                                         *)
(* Money is counted in cents.  A Python float holding an amount is        *)
(* represented as an integer number of 1/Sub cents, so that the rounding  *)
(* of calculate_order_total is a real operation.  Identifier strings are  *)
(* represented by their length, whether all characters are hexadecimal,   *)
(* and the 12-byte value they encode.                                      *)
(***************************************************************************)
EXTENDS Integers, Sequences, FiniteSets, TLC

\* ---------------------------------------------------------------- bounds
MaxProducts == 2
MaxStoredItems == 2
MaxItems == 2
MaxListed == 5
MaxLimit == 2
MaxOffset == 4
Sub == 4
MaxClients == 3
MaxRequests == 3

\* ------------------------------------------------------ program constants
OidLen == 24
DEFAULT_LIMIT == 10
DEFAULT_OFFSET == 0
FIXED_USER == "user_1"
PLACEHOLDER_NAME == "Product Not Available"
HTTP_200 == 200
HTTP_201 == 201
HTTP_400 == 400
HTTP_404 == 404
HTTP_422 == 422
HTTP_500 == 500

None == "None"

\* ------------------------------------------------------------ input sets
\* the name and price a product document is given by an insert or an update
ProductInputs == {[name |-> "Tee", price |-> 1000], [name |-> "Hat", price |-> 350]}
SizeLists == {<<[size |-> "M", quantity |-> 15], [size |-> "L", quantity |-> 8]>>}
Users == {"user_1", "user_2"}
ObjectIds == 1..(MaxProducts + MaxStoredItems)

\* str(ObjectId): 24 lowercase hexadecimal characters encoding the value
OidStr(oid) == [len |-> OidLen, hex |-> TRUE, val |-> oid]

\* strings a client may send where an identifier is expected
NotHexStr == [len |-> OidLen, hex |-> FALSE, val |-> 0]
ShortStr == [len |-> 3, hex |-> TRUE, val |-> 1]
IdStrings == {OidStr(k) : k \in ObjectIds} \cup {NotHexStr, ShortStr}


\* bson.ObjectId.is_valid for a str argument
ObjectIdValid(s) == s.len = OidLen /\ s.hex

\* ObjectId(s) for a valid s
ObjectIdOf(s) == s.val

\* OrderItem.productId: Field(min_length=24, max_length=24)
OrderItemValid(it) == it.productId.len = OidLen /\ it.qty > 0 /\ it.qty <= 1000

\* the items a client puts into an order (items failing OrderItemValid are
\* answered with 422 before create_order runs)
ItemInputs ==
    {it \in {[productId |-> OidStr(1), qty |-> 2], [productId |-> OidStr(2), qty |-> 1],
             [productId |-> NotHexStr, qty |-> 1], [productId |-> ShortStr, qty |-> 1]} :
        OrderItemValid(it)}

RECURSIVE SeqsUpTo(_, _)
SeqsUpTo(S, n) ==
    IF n = 0 THEN {<< >>}
    ELSE LET shorter == SeqsUpTo(S, n - 1)
         IN shorter \cup {Append(q, x) : q \in {r \in shorter : Len(r) = n - 1}, x \in S}

\* OrderCreate.items: Field(min_items=1)
OrderInputs == {q \in SeqsUpTo(ItemInputs, MaxItems) : Len(q) >= 1}

\* ----------------------------------------------------------------- state
VARIABLES
    products,         \* the 'products' collection: ObjectId -> document
    orders,           \* the 'orders' collection: ObjectId -> document
    nextId,           \* the next ObjectId the driver generates
    database_client,  \* app.database.database_client
    reachable,        \* whether the store answers the application
    co,               \* the create_order request in flight
    trav,             \* a client following next cursors
    conn,             \* the get_database calls in flight and the clients made
    resp              \* the response last delivered

vars == <<products, orders, nextId, database_client, reachable, co, trav, conn, resp>>

NoResp == [op |-> "none", status |-> 0]

\* the last response has left; every step below starts from here
Quiet == resp = NoResp
IdleCo == [pc |-> "idle"]
IdleTrav == [pc |-> "idle"]

\* ------------------------------------------------------ store connection
\* the requests that may be inside get_database at the same time
Requests == 1..MaxRequests

\* no AsyncIOMotorClient made yet, no request inside get_database
IdleConn ==
    [made |-> 0, cur |-> 0, closed |-> {},
     req |-> [r \in Requests |-> [pc |-> "idle", client |-> 0]]]

\* request r enters get_database: with database_client None it runs
\* connect_to_mongo up to the await of the ping, having bound the global to a
\* new AsyncIOMotorClient; otherwise it returns database_client[database_name]
GetDatabaseEnter(r) ==
    /\ Quiet
    /\ conn.req[r].pc = "idle"
    /\ IF database_client = None
       THEN /\ conn.made < MaxClients
            /\ database_client' = "client"
            /\ conn' = [conn EXCEPT !.made = conn.made + 1,
                                    !.cur = conn.made + 1,
                                    !.req[r] = [pc |-> "ping", client |-> conn.made + 1]]
       ELSE /\ database_client' = database_client
            /\ conn' = [conn EXCEPT !.req[r] = [pc |-> "has", client |-> conn.cur]]
    /\ UNCHANGED <<products, orders, nextId, reachable, co, trav, resp>>

\* the outcomes the ping of the client bound to the global may have: it
\* succeeds on a reachable store and raises on an unreachable one; on a
\* client closed meanwhile it raises or reconnects, depending on the driver
PingOutcomes ==
    IF ~reachable THEN {FALSE}
    ELSE IF conn.cur \in conn.closed THEN {TRUE, FALSE}
    ELSE {TRUE}

\* a failed ping that leaves the client bound to the global
PingDone_sticky(r) ==
    /\ conn.req[r].pc = "ping"
    /\ \E ok \in PingOutcomes :
          IF ok
          THEN /\ database_client' = database_client
               /\ conn' = [conn EXCEPT !.req[r] = [pc |-> "has", client |-> conn.cur]]
          ELSE /\ database_client' = database_client
               /\ conn' = [conn EXCEPT !.req[r] = [pc |-> "failed", client |-> 0]]
    /\ UNCHANGED <<products, orders, nextId, reachable, co, trav, resp>>

\* the ping of request r returns: on success get_database returns the
\* global's database; on failure the global is set to None and get_database
\* raises RuntimeError
PingDone(r) ==
    /\ conn.req[r].pc = "ping"
    /\ \E ok \in PingOutcomes :
          IF ok
          THEN /\ database_client' = database_client
               /\ conn' = [conn EXCEPT !.req[r] = [pc |-> "has", client |-> conn.cur]]
          ELSE /\ database_client' = None
               /\ conn' = [conn EXCEPT !.cur = 0,
                                       !.req[r] = [pc |-> "failed", client |-> 0]]
    /\ UNCHANGED <<products, orders, nextId, reachable, co, trav, resp>>

\* close_mongo_connection: closes the client bound to the global, if any,
\* and leaves the global bound to it
close_mongo_connection ==
    /\ Quiet
    /\ database_client # None
    /\ conn.cur \notin conn.closed
    /\ conn' = [conn EXCEPT !.closed = @ \cup {conn.cur}]
    /\ UNCHANGED <<products, orders, nextId, database_client, reachable, co, trav, resp>>

PlainResp(op, st) == [op |-> op, status |-> st]

\* a health check that tries the store and reports 500 when it is down
health_check_probing ==
    /\ Quiet
    /\ resp' = PlainResp("health_check", IF reachable THEN HTTP_200 ELSE HTTP_500)
    /\ database_client' = IF reachable THEN "client" ELSE None
    /\ UNCHANGED <<products, orders, nextId, reachable, co, trav, conn>>

\* GET /health
health_check ==
    /\ Quiet
    /\ resp' = PlainResp("health_check", HTTP_200)
    /\ UNCHANGED <<products, orders, nextId, database_client, reachable, co, trav, conn>>

\* GET /
root ==
    /\ Quiet
    /\ resp' = PlainResp("root", HTTP_200)
    /\ UNCHANGED <<products, orders, nextId, database_client, reachable, co, trav, conn>>

\* the handler of request r is over, with the handle it got or the exception
HandlerEnds(r) ==
    /\ conn.req[r].pc \in {"has", "failed"}
    /\ conn' = [conn EXCEPT !.req[r] = [pc |-> "idle", client |-> 0]]
    /\ UNCHANGED <<products, orders, nextId, database_client, reachable, co, trav, resp>>

\* database_client after get_database has run: connect_to_mongo is called
\* when it is None and leaves it None when the ping fails
AfterGetDatabase ==
    IF database_client # None THEN database_client
    ELSE IF reachable THEN "client" ELSE None

\* get_database returns a handle (does not raise RuntimeError)
GetDatabaseOk == AfterGetDatabase # None

\* get_collection awaited: a collection handle, or "raise"
get_collection(collection_name) ==
    IF GetDatabaseOk THEN [kind |-> "collection", name |-> collection_name]
    ELSE [kind |-> "raise", name |-> collection_name]

\* a store round trip on a handle of the shared client succeeds
StoreAnswers == reachable

\* --------------------------------------------------------- float amounts
\* price * qty summed over the items, exactly, in cents
RECURSIVE SumCents(_)
SumCents(items) ==
    IF items = << >> THEN 0
    ELSE items[1].price * items[1].qty + SumCents(Tail(items))

\* the values the float accumulation of calculate_order_total may hold:
\* the exact sum up to one unit of representation error
FloatTotals(items) == {SumCents(items) * Sub + e : e \in {-1, 0, 1}}

\* round(x, 2): to the nearest cent, ties to even
Round2(x) ==
    LET q == x \div Sub
        r == x % Sub
    IN IF 2 * r < Sub THEN q
       ELSE IF 2 * r > Sub THEN q + 1
       ELSE IF q % 2 = 0 THEN q ELSE q + 1

\* a total that is cut to whole cents instead of rounded
calculate_order_total_truncating(acc) == acc \div Sub

\* calculate_order_total, given the float the loop accumulated
calculate_order_total(acc) == Round2(acc)

\* ------------------------------------------------- direct store writers
\* the number of product documents inserted so far (orders are never removed)
ProductsInserted == nextId - 1 - Cardinality(DOMAIN orders)

\* a script inserts a product document straight into the collection
InsertProduct ==
    /\ Quiet
    /\ ProductsInserted < MaxProducts
    /\ \E in \in ProductInputs, s \in SizeLists :
          products' = [k \in DOMAIN products \cup {nextId} |->
                          IF k = nextId
                          THEN [name |-> in.name, price |-> in.price, sizes |-> s]
                          ELSE products[k]]
    /\ nextId' = nextId + 1
    /\ UNCHANGED <<conn, orders, database_client, reachable, co, trav, resp>>

\* a script deletes a product document
DeleteProduct ==
    /\ Quiet
    /\ \E k \in DOMAIN products :
          products' = [j \in DOMAIN products \ {k} |-> products[j]]
    /\ UNCHANGED <<conn, orders, nextId, database_client, reachable, co, trav, resp>>

\* a product's price or name is changed in the store
UpdateProduct ==
    /\ Quiet
    /\ \E k \in DOMAIN products, in \in ProductInputs :
          /\ <<in.name, in.price>> # <<products[k].name, products[k].price>>
          /\ products' = [products EXCEPT ![k].name = in.name, ![k].price = in.price]
    /\ UNCHANGED <<conn, orders, nextId, database_client, reachable, co, trav, resp>>

\* the store becomes unreachable or reachable again
ToggleReachable ==
    /\ Quiet
    /\ reachable' = ~reachable
    /\ UNCHANGED <<conn, products, orders, nextId, database_client, co, trav, resp>>

\* ---------------------------------------------------------- create_order
RECURSIVE SumLen(_, _)
SumLen(f, S) ==
    IF S = {} THEN 0
    ELSE LET k == CHOOSE x \in S : TRUE
         IN Len(f[k].items) + SumLen(f, S \ {k})

\* the number of items held by the orders collection
StoredItems == SumLen(orders, DOMAIN orders)

CreateOrderResp(req, st, id, detail) ==
    [op |-> "create_order", req |-> req, status |-> st, id |-> id, detail |-> detail]

ProductNotFoundError(product_id) == [error |-> "ProductNotFound", arg |-> product_id]
FailedToCreateOrder == [error |-> "Failed to create order", arg |-> None]

\* the handler starts: both get_collection calls
CreateOrderBegin ==
    /\ Quiet
    /\ co.pc = "idle"
    /\ \E u \in Users, items \in OrderInputs :
          LET req == [userId |-> u, items |-> items]
          IN /\ StoredItems + Len(items) <= MaxStoredItems
             /\ database_client' = AfterGetDatabase
             /\ IF get_collection("orders").kind = "raise"
                THEN /\ resp' = CreateOrderResp(req, HTTP_500, None, FailedToCreateOrder)
                     /\ co' = IdleCo
                ELSE /\ resp' = NoResp
                     /\ co' = [pc |-> "resolve", req |-> req, order_items |-> << >>]
    /\ UNCHANGED <<conn, products, orders, nextId, reachable, trav>>

\* a loop that skips an item it cannot resolve instead of failing
CreateOrderResolve_skipping ==
    /\ Quiet
    /\ co.pc = "resolve"
    /\ Len(co.order_items) < Len(co.req.items)
    /\ LET item == co.req.items[Len(co.order_items) + 1]
           found == /\ ObjectIdValid(item.productId)
                    /\ ObjectIdOf(item.productId) \in DOMAIN products
       IN IF ~StoreAnswers
          THEN /\ resp' = CreateOrderResp(co.req, HTTP_500, None, FailedToCreateOrder)
               /\ co' = IdleCo
          ELSE /\ co' = [co EXCEPT !.order_items =
                            Append(@, [productId |-> item.productId,
                                       qty |-> item.qty,
                                       price |-> IF found
                                                 THEN products[ObjectIdOf(item.productId)].price
                                                 ELSE 0])]
               /\ resp' = resp
    /\ UNCHANGED <<conn, products, orders, nextId, database_client, reachable, trav>>

\* a loop that starts over when a lookup meets an unreachable store
CreateOrderResolve_retrying ==
    /\ Quiet
    /\ co.pc = "resolve"
    /\ Len(co.order_items) < Len(co.req.items)
    /\ LET item == co.req.items[Len(co.order_items) + 1]
       IN IF ~ObjectIdValid(item.productId)
          THEN /\ resp' = CreateOrderResp(co.req, HTTP_404, None,
                                          ProductNotFoundError(item.productId))
               /\ co' = IdleCo
          ELSE IF ~StoreAnswers
          THEN /\ resp' = resp
               /\ co' = [co EXCEPT !.order_items = << >>]
          ELSE IF ObjectIdOf(item.productId) \notin DOMAIN products
          THEN /\ resp' = CreateOrderResp(co.req, HTTP_404, None,
                                          ProductNotFoundError(item.productId))
               /\ co' = IdleCo
          ELSE /\ co' = [co EXCEPT !.order_items =
                            Append(@, [productId |-> item.productId,
                                       qty |-> item.qty,
                                       price |-> products[ObjectIdOf(item.productId)].price])]
               /\ resp' = resp
    /\ UNCHANGED <<conn, products, orders, nextId, database_client, reachable, trav>>

\* InvalidObjectIdError let through as 400 instead of being turned into 404
CreateOrderResolve_invalid_id_400 ==
    /\ Quiet
    /\ co.pc = "resolve"
    /\ Len(co.order_items) < Len(co.req.items)
    /\ LET item == co.req.items[Len(co.order_items) + 1]
       IN IF ~ObjectIdValid(item.productId)
          THEN /\ resp' = CreateOrderResp(co.req, HTTP_400, None,
                                          [error |-> "InvalidObjectId", arg |-> item.productId])
               /\ co' = IdleCo
          ELSE IF ~StoreAnswers
          THEN /\ resp' = CreateOrderResp(co.req, HTTP_500, None, FailedToCreateOrder)
               /\ co' = IdleCo
          ELSE IF ObjectIdOf(item.productId) \notin DOMAIN products
          THEN /\ resp' = CreateOrderResp(co.req, HTTP_404, None,
                                          ProductNotFoundError(item.productId))
               /\ co' = IdleCo
          ELSE /\ co' = [co EXCEPT !.order_items =
                            Append(@, [productId |-> item.productId,
                                       qty |-> item.qty,
                                       price |-> products[ObjectIdOf(item.productId)].price])]
               /\ resp' = resp
    /\ UNCHANGED <<conn, products, orders, nextId, database_client, reachable, trav>>

\* one round of the loop over order.items
CreateOrderResolve ==
    /\ Quiet
    /\ co.pc = "resolve"
    /\ Len(co.order_items) < Len(co.req.items)
    /\ LET item == co.req.items[Len(co.order_items) + 1]
       IN IF ~ObjectIdValid(item.productId)
          THEN \* InvalidObjectIdError is turned into ProductNotFoundError
               /\ resp' = CreateOrderResp(co.req, HTTP_404, None,
                                          ProductNotFoundError(item.productId))
               /\ co' = IdleCo
          ELSE IF ~StoreAnswers
          THEN /\ resp' = CreateOrderResp(co.req, HTTP_500, None, FailedToCreateOrder)
               /\ co' = IdleCo
          ELSE IF ObjectIdOf(item.productId) \notin DOMAIN products
          THEN /\ resp' = CreateOrderResp(co.req, HTTP_404, None,
                                          ProductNotFoundError(item.productId))
               /\ co' = IdleCo
          ELSE /\ co' = [co EXCEPT !.order_items =
                            Append(@, [productId |-> item.productId,
                                       qty |-> item.qty,
                                       price |-> products[ObjectIdOf(item.productId)].price])]
               /\ resp' = resp
    /\ UNCHANGED <<conn, products, orders, nextId, database_client, reachable, trav>>

\* an order document whose total is taken at the prices the catalog has at
\* the time of the write
OrderData_total_at_write(order_items, acc) ==
    [userId |-> FIXED_USER, items |-> order_items,
     total |-> SumCents([i \in 1..Len(order_items) |->
                  [price |-> IF ObjectIdOf(order_items[i].productId) \in DOMAIN products
                             THEN products[ObjectIdOf(order_items[i].productId)].price
                             ELSE 0,
                   qty |-> order_items[i].qty]])]

\* an order document that takes the userId of the request
OrderData_of_caller(order_items, acc) ==
    [userId |-> co.req.userId, items |-> order_items, total |-> calculate_order_total(acc)]

\* the document create_order builds once every item is resolved
OrderData(order_items, acc) ==
    [userId |-> FIXED_USER, items |-> order_items, total |-> calculate_order_total(acc)]

\* an insert that also takes the ordered quantity off the stock of the
\* first size of each ordered product
CreateOrderInsert_decrementing ==
    /\ Quiet
    /\ co.pc = "resolve"
    /\ Len(co.order_items) = Len(co.req.items)
    /\ IF ~StoreAnswers
       THEN /\ resp' = CreateOrderResp(co.req, HTTP_500, None, FailedToCreateOrder)
            /\ UNCHANGED <<orders, nextId, products>>
       ELSE \E acc \in FloatTotals(co.order_items) :
               /\ orders' = [k \in DOMAIN orders \cup {nextId} |->
                                IF k = nextId THEN OrderData(co.order_items, acc)
                                ELSE orders[k]]
               /\ nextId' = nextId + 1
               /\ products' =
                     [k \in DOMAIN products |->
                         IF \E i \in 1..Len(co.order_items) :
                               ObjectIdOf(co.order_items[i].productId) = k
                         THEN [products[k] EXCEPT !.sizes[1].quantity = @ - 1]
                         ELSE products[k]]
               /\ resp' = CreateOrderResp(co.req, HTTP_201, OidStr(nextId), None)
    /\ co' = IdleCo
    /\ UNCHANGED <<conn, database_client, reachable, trav>>

\* an insert that replaces the orders collection by the new document
CreateOrderInsert_replacing ==
    /\ Quiet
    /\ co.pc = "resolve"
    /\ Len(co.order_items) = Len(co.req.items)
    /\ IF ~StoreAnswers
       THEN /\ resp' = CreateOrderResp(co.req, HTTP_500, None, FailedToCreateOrder)
            /\ UNCHANGED <<orders, nextId>>
       ELSE \E acc \in FloatTotals(co.order_items) :
               /\ orders' = [k \in {nextId} |-> OrderData(co.order_items, acc)]
               /\ nextId' = nextId + 1
               /\ resp' = CreateOrderResp(co.req, HTTP_201, OidStr(nextId), None)
    /\ co' = IdleCo
    /\ UNCHANGED <<conn, products, database_client, reachable, trav>>

\* total computation and insert_one
CreateOrderInsert ==
    /\ Quiet
    /\ co.pc = "resolve"
    /\ Len(co.order_items) = Len(co.req.items)
    /\ IF ~StoreAnswers
       THEN /\ resp' = CreateOrderResp(co.req, HTTP_500, None, FailedToCreateOrder)
            /\ UNCHANGED <<orders, nextId>>
       ELSE \E acc \in FloatTotals(co.order_items) :
               /\ orders' = [k \in DOMAIN orders \cup {nextId} |->
                                IF k = nextId THEN OrderData(co.order_items, acc)
                                ELSE orders[k]]
               /\ nextId' = nextId + 1
               /\ resp' = CreateOrderResp(co.req, HTTP_201, OidStr(nextId), None)
    /\ co' = IdleCo
    /\ UNCHANGED <<conn, products, database_client, reachable, trav>>

\* the client issues one request at a time: a read runs when no
\* create_order is in flight (an in-flight create_order has no effect on the
\* store before its insert, so a read sees what it would see before it)
ClientIdle == Quiet /\ co.pc = "idle"

\* the response leaves the service
ResponseSent ==
    /\ resp # NoResp
    /\ resp' = NoResp
    /\ UNCHANGED <<conn, products, orders, nextId, database_client, reachable, co, trav>>

\* ------------------------------------------------------ order read views
ProductDetailsInOrder(id, name) == [id |-> id, name |-> name]
OrderItemWithProductDetails(details, qty) == [productDetails |-> details, qty |-> qty]

\* a lookup that returns None on every exception, not only on
\* InvalidObjectIdError
fetch_product_details_swallowing(product_id) ==
    IF get_collection("products").kind = "raise" THEN [kind |-> "none"]
    ELSE IF ~ObjectIdValid(product_id) THEN [kind |-> "none"]
    ELSE IF ~StoreAnswers THEN [kind |-> "none"]
    ELSE IF ObjectIdOf(product_id) \in DOMAIN products
         THEN [kind |-> "found",
               details |-> [id |-> product_id,
                            name |-> products[ObjectIdOf(product_id)].name]]
         ELSE [kind |-> "none"]

\* a lookup whose find_one has lost its _id filter: the details of the first
\* product of the collection under the id asked for
fetch_product_details_unfiltered(product_id) ==
    IF get_collection("products").kind = "raise" THEN [kind |-> "raise"]
    ELSE IF ~ObjectIdValid(product_id) THEN [kind |-> "none"]
    ELSE IF ~StoreAnswers THEN [kind |-> "raise"]
    ELSE IF DOMAIN products # {}
         THEN [kind |-> "found",
               details |-> [id |-> product_id,
                            name |-> products[CHOOSE k \in DOMAIN products :
                                                 \A j \in DOMAIN products : k <= j].name]]
         ELSE [kind |-> "none"]

\* a lookup that raises when the product is gone instead of returning None
fetch_product_details_raising(product_id) ==
    IF get_collection("products").kind = "raise" THEN [kind |-> "raise"]
    ELSE IF ~ObjectIdValid(product_id) THEN [kind |-> "none"]
    ELSE IF ~StoreAnswers THEN [kind |-> "raise"]
    ELSE IF ObjectIdOf(product_id) \in DOMAIN products
         THEN [kind |-> "found",
               details |-> ProductDetailsInOrder(product_id,
                                                 products[ObjectIdOf(product_id)].name)]
         ELSE [kind |-> "raise"]

\* fetch_product_details: the details found, None, or an exception raised
fetch_product_details(product_id) ==
    IF get_collection("products").kind = "raise" THEN [kind |-> "raise"]
    ELSE IF ~ObjectIdValid(product_id) THEN [kind |-> "none"]
    ELSE IF ~StoreAnswers THEN [kind |-> "raise"]
    ELSE IF ObjectIdOf(product_id) \in DOMAIN products
         THEN [kind |-> "found",
               details |-> ProductDetailsInOrder(product_id,
                                                 products[ObjectIdOf(product_id)].name)]
         ELSE [kind |-> "none"]

\* the loop over order["items"] of get_order and get_orders_by_user
JoinItem(item) ==
    LET product_details == fetch_product_details(item.productId)
    IN IF product_details.kind = "found"
       THEN OrderItemWithProductDetails(product_details.details, item.qty)
       ELSE OrderItemWithProductDetails(
                ProductDetailsInOrder(item.productId, PLACEHOLDER_NAME), item.qty)

\* a join that shows a product once, however many items name it
ItemsWithDetails_merging(items) ==
    LET RECURSIVE firsts(_, _)
        firsts(its, seen) ==
            IF its = << >> THEN << >>
            ELSE IF its[1].productId \in seen THEN firsts(Tail(its), seen)
                 ELSE <<JoinItem(its[1])>> \o firsts(Tail(its), seen \cup {its[1].productId})
    IN firsts(items, {})

ItemsWithDetails(items) == [i \in 1..Len(items) |-> JoinItem(items[i])]

\* an exception leaves fetch_product_details for one of the items
JoinRaises(items) ==
    \E i \in 1..Len(items) : fetch_product_details(items[i].productId).kind = "raise"

\* the price of a product as the catalog has it now, 0 when it is gone
CurrentPrice(product_id) ==
    IF ObjectIdValid(product_id) /\ ObjectIdOf(product_id) \in DOMAIN products
    THEN products[ObjectIdOf(product_id)].price ELSE 0

\* a view whose total is computed again from the catalog on every read
OrderResponse_recomputing(oid) ==
    [id |-> OidStr(oid), userId |-> orders[oid].userId,
     items |-> ItemsWithDetails(orders[oid].items),
     total |-> SumCents([i \in 1..Len(orders[oid].items) |->
                            [price |-> CurrentPrice(orders[oid].items[i].productId),
                             qty |-> orders[oid].items[i].qty]])]

\* OrderResponse(id=str(order["_id"]), userId=..., items=..., total=order["total"])
OrderResponse(oid) ==
    [id |-> OidStr(oid), userId |-> orders[oid].userId,
     items |-> ItemsWithDetails(orders[oid].items), total |-> orders[oid].total]

\* ------------------------------------------------------------- get_order
GetOrderResp(order_id, st, body) ==
    [op |-> "get_order", order_id |-> order_id, status |-> st, body |-> body]

\* a handler without the 'except (OrderNotFoundError, InvalidObjectIdError):
\* raise' clause: every exception ends in the generic 500
get_order_catch_all(order_id) ==
    IF get_collection("orders").kind = "raise"
       \/ ~ObjectIdValid(order_id)
       \/ ~StoreAnswers
       \/ ObjectIdOf(order_id) \notin DOMAIN orders
       \/ JoinRaises(orders[ObjectIdOf(order_id)].items)
    THEN GetOrderResp(order_id, HTTP_500, None)
    ELSE GetOrderResp(order_id, HTTP_200, OrderResponse(ObjectIdOf(order_id)))

get_order(order_id) ==
    IF get_collection("orders").kind = "raise"
    THEN GetOrderResp(order_id, HTTP_500, None)
    ELSE IF ~ObjectIdValid(order_id)
    THEN GetOrderResp(order_id, HTTP_400, None)
    ELSE IF ~StoreAnswers
    THEN GetOrderResp(order_id, HTTP_500, None)
    ELSE IF ObjectIdOf(order_id) \notin DOMAIN orders
    THEN GetOrderResp(order_id, HTTP_404, None)
    ELSE IF JoinRaises(orders[ObjectIdOf(order_id)].items)
    THEN GetOrderResp(order_id, HTTP_500, None)
    ELSE GetOrderResp(order_id, HTTP_200, OrderResponse(ObjectIdOf(order_id)))

GetOrder ==
    /\ ClientIdle
    /\ \E order_id \in IdStrings : resp' = get_order(order_id)
    /\ database_client' = AfterGetDatabase
    /\ UNCHANGED <<conn, products, orders, nextId, reachable, co, trav>>

\* an exception leaves fetch_product_details for one of the items from the
\* j-th on
JoinRaisesFrom(items, j) ==
    \E i \in j..Len(items) : fetch_product_details(items[i].productId).kind = "raise"

\* get_order when the store stops answering after the order was fetched and
\* the items before the j-th were joined: the remaining lookups run against
\* the store as it is after the step
get_order_store_lost(order_id, j) ==
    LET oid == ObjectIdOf(order_id)
    IN IF JoinRaisesFrom(orders[oid].items, j)'
       THEN GetOrderResp(order_id, HTTP_500, None)
       ELSE GetOrderResp(order_id, HTTP_200,
                [id |-> OidStr(oid), userId |-> orders[oid].userId,
                 items |-> [i \in 1..Len(orders[oid].items) |->
                               IF i < j THEN JoinItem(orders[oid].items[i])
                               ELSE JoinItem(orders[oid].items[i])'],
                 total |-> orders[oid].total])

\* GET /orders/order/{order_id} during which the store becomes unreachable
GetOrderStoreLost ==
    /\ ClientIdle
    /\ reachable
    /\ reachable' = FALSE
    /\ database_client' = AfterGetDatabase
    /\ UNCHANGED <<products, orders, nextId, co, trav, conn>>
    /\ \E order_id \in IdStrings :
          /\ ObjectIdValid(order_id)
          /\ ObjectIdOf(order_id) \in DOMAIN orders
          /\ \E j \in 1..Len(orders[ObjectIdOf(order_id)].items) :
                resp' = get_order_store_lost(order_id, j)

\* ------------------------------------------------------------ pagination
RECURSIVE SortedSeq(_)
SortedSeq(S) ==
    IF S = {} THEN << >>
    ELSE LET m == CHOOSE x \in S : \A y \in S : x <= y
         IN <<m>> \o SortedSeq(S \ {m})

\* a cursor without its skip: the first documents whatever the offset
PageIds_without_skip(matching, offset, limit) ==
    LET sorted == SortedSeq(matching)
    IN SubSeq(sorted, 1, IF limit < Len(sorted) THEN limit ELSE Len(sorted))

\* cursor.sort("_id", 1).skip(offset).limit(limit) over the matching ids
PageIds(matching, offset, limit) ==
    LET sorted == SortedSeq(matching)
        last == IF offset + limit < Len(sorted) THEN offset + limit ELSE Len(sorted)
    IN SubSeq(sorted, offset + 1, last)

\* a Page whose next cursor is also given on the last page
OrdersPage_next_on_last(offset, limit, total_count) ==
    LET has_next == offset + limit <= total_count
        has_previous == offset > 0
    IN [next |-> IF has_next THEN ToString(offset + limit) ELSE None,
        limit |-> limit,
        previous |-> IF has_previous THEN ToString(offset - limit) ELSE None]

\* the Page built by get_orders_by_user
OrdersPage(offset, limit, total_count) ==
    LET has_next == offset + limit < total_count
        has_previous == offset > 0
    IN [next |-> IF has_next THEN ToString(offset + limit) ELSE None,
        limit |-> limit,
        previous |-> IF has_previous THEN ToString(offset - limit) ELSE None]

\* the Page built by get_products
ProductsPage(offset, limit, total_count) ==
    LET has_next == offset + limit < total_count
        has_previous == offset > 0
    IN [next |-> IF has_next THEN ToString(offset + limit) ELSE None,
        limit |-> limit,
        previous |-> IF has_previous THEN ToString(offset - limit) ELSE None]

Limits == 1..MaxLimit
Offsets == 0..MaxOffset

\* ---------------------------------------------------- get_orders_by_user
ListOrdersResp(user_id, limit, offset, st, data, page) ==
    [op |-> "get_orders_by_user", user_id |-> user_id, limit |-> limit,
     offset |-> offset, status |-> st, data |-> data, page |-> page]

\* a query that leaves the userId filter out
OrdersOfUser_unfiltered(user_id) == DOMAIN orders

\* the ids of the documents matching {"userId": user_id}
OrdersOfUser(user_id) == {k \in DOMAIN orders : orders[k].userId = user_id}

\* a join that leaves out the items whose product is gone
ListedItems_dropping_missing(items) ==
    LET RECURSIVE kept(_)
        kept(its) ==
            IF its = << >> THEN << >>
            ELSE IF fetch_product_details(its[1].productId).kind = "found"
                 THEN <<OrderItemWithProductDetails(
                            fetch_product_details(its[1].productId).details, its[1].qty)>>
                      \o kept(Tail(its))
                 ELSE kept(Tail(its))
    IN kept(items)

\* the loop over order["items"] inside the cursor loop of get_orders_by_user
ListedItems(items) ==
    [i \in 1..Len(items) |->
        LET product_details == fetch_product_details(items[i].productId)
        IN IF product_details.kind = "found"
           THEN OrderItemWithProductDetails(product_details.details, items[i].qty)
           ELSE OrderItemWithProductDetails(
                    ProductDetailsInOrder(items[i].productId, "Product Not Available"),
                    items[i].qty)]

\* the OrderResponse get_orders_by_user builds for one document of the cursor
ListedOrderResponse(oid) ==
    [id |-> OidStr(oid), userId |-> orders[oid].userId,
     items |-> ListedItems(orders[oid].items), total |-> orders[oid].total]

get_orders_by_user(user_id, limit, offset) ==
    LET ids == PageIds(OrdersOfUser(user_id), offset, limit)
        total_count == Cardinality(OrdersOfUser(user_id))
    IN IF get_collection("orders").kind = "raise" \/ ~StoreAnswers
          \/ \E i \in 1..Len(ids) : JoinRaises(orders[ids[i]].items)
       THEN ListOrdersResp(user_id, limit, offset, HTTP_500, None, None)
       ELSE ListOrdersResp(user_id, limit, offset, HTTP_200,
                           [i \in 1..Len(ids) |-> ListedOrderResponse(ids[i])],
                           OrdersPage(offset, limit, total_count))

\* get_orders_by_user when the store stops answering after the count and the
\* orders before the n-th of the page were joined, at the j-th item of the
\* n-th: the remaining lookups run against the store as it is after the step
get_orders_by_user_store_lost(user_id, limit, offset, n, j) ==
    LET ids == PageIds(OrdersOfUser(user_id), offset, limit)
        total_count == Cardinality(OrdersOfUser(user_id))
    IN IF \/ JoinRaisesFrom(orders[ids[n]].items, j)'
          \/ \E m \in (n + 1)..Len(ids) : JoinRaisesFrom(orders[ids[m]].items, 1)'
       THEN ListOrdersResp(user_id, limit, offset, HTTP_500, None, None)
       ELSE ListOrdersResp(user_id, limit, offset, HTTP_200,
                [m \in 1..Len(ids) |->
                    IF m < n THEN ListedOrderResponse(ids[m])
                    ELSE IF m > n THEN ListedOrderResponse(ids[m])'
                    ELSE [id |-> OidStr(ids[m]), userId |-> orders[ids[m]].userId,
                          items |-> [i \in 1..Len(orders[ids[m]].items) |->
                                        IF i < j THEN ListedItems(orders[ids[m]].items)[i]
                                        ELSE ListedItems(orders[ids[m]].items)'[i]],
                          total |-> orders[ids[m]].total]],
                OrdersPage(offset, limit, total_count))

\* GET /orders/{user_id} during which the store becomes unreachable
ListOrdersStoreLost ==
    /\ ClientIdle
    /\ reachable
    /\ reachable' = FALSE
    /\ database_client' = AfterGetDatabase
    /\ UNCHANGED <<products, orders, nextId, co, trav, conn>>
    /\ \E user_id \in Users :
          LET ids == PageIds(OrdersOfUser(user_id), DEFAULT_OFFSET, DEFAULT_LIMIT)
          IN \E n \in 1..Len(ids) : \E j \in 1..Len(orders[ids[n]].items) :
                resp' = get_orders_by_user_store_lost(user_id, DEFAULT_LIMIT,
                                                      DEFAULT_OFFSET, n, j)

\* a request with the limit and offset drawn from the given sets
ListOrdersRequest(limits, offsets) ==
    /\ ClientIdle
    /\ \E user_id \in Users, limit \in limits, offset \in offsets :
          resp' = get_orders_by_user(user_id, limit, offset)
    /\ database_client' = AfterGetDatabase
    /\ UNCHANGED <<conn, products, orders, nextId, reachable, co, trav>>

\* GET /orders/{user_id} with the query parameters left to their defaults
ListOrdersByUserDefault == ListOrdersRequest({DEFAULT_LIMIT}, {DEFAULT_OFFSET})

\* GET /orders/{user_id}?limit=..&offset=..
ListOrdersByUser == ListOrdersRequest(Limits, Offsets)

\* -------------------------------------------------------- products router
\* get_collection("products") called without await: a coroutine object
get_collection_not_awaited(collection_name) ==
    [kind |-> "coroutine", name |-> collection_name]

\* the object has the collection methods (find_one, count_documents, ...)
HasCollectionMethods(obj) == obj.kind = "collection"

ProductResponse(oid) ==
    [id |-> OidStr(oid), name |-> products[oid].name, price |-> products[oid].price]

\* the characters of the strings used as names and name filters
Chars ==
    [s \in {"Tee", "Hat", "AT", "M", "L", ""} |->
        CASE s = "Tee" -> <<"T", "e", "e">>
          [] s = "Hat" -> <<"H", "a", "t">>
          [] s = "AT" -> <<"A", "T">>
          [] s = "M" -> <<"M">>
          [] s = "L" -> <<"L">>
          [] s = "" -> << >>]

LowerChar(c) ==
    CASE c = "T" -> "t" [] c = "H" -> "h" [] c = "A" -> "a" [] OTHER -> c

Lower(cs) == [i \in 1..Len(cs) |-> LowerChar(cs[i])]

\* {"$regex": pattern, "$options": "i"} for a pattern of plain characters
RegexMatchIgnoreCase(pattern, name) ==
    LET pc == Lower(Chars[pattern])
        nc == Lower(Chars[name])
    IN \E i \in 0..(Len(nc) - Len(pc)) : SubSeq(nc, i + 1, i + Len(pc)) = pc

\* {"sizes.size": size}
HasSize(doc, size) == \E i \in 1..Len(doc.sizes) : doc.sizes[i].size = size

\* the ids of the documents matching the query get_products builds
ProductsMatching(name, size) ==
    {k \in DOMAIN products :
        /\ name # None => RegexMatchIgnoreCase(name, products[k].name)
        /\ size # None => HasSize(products[k], size)}

NameFilters == {None, "AT"}
SizeFilters == {None, "L"}

ListProductsResp(name, size, limit, offset, st, data, page) ==
    [op |-> "get_products", name |-> name, size |-> size, limit |-> limit,
     offset |-> offset, status |-> st, data |-> data, page |-> page]

get_products(name, size, limit, offset) ==
    LET collection == get_collection_not_awaited("products")
        ids == PageIds(ProductsMatching(name, size), offset, limit)
        total_count == Cardinality(ProductsMatching(name, size))
    IN IF ~HasCollectionMethods(collection) \/ ~StoreAnswers
       THEN ListProductsResp(name, size, limit, offset, HTTP_500, None, None)
       ELSE ListProductsResp(name, size, limit, offset, HTTP_200,
                             [i \in 1..Len(ids) |-> ProductResponse(ids[i])],
                             ProductsPage(offset, limit, total_count))

\* a request with the limit and offset drawn from the given sets
ListProductsRequest(limits, offsets) ==
    /\ ClientIdle
    /\ \E name \in NameFilters, size \in SizeFilters,
          limit \in limits, offset \in offsets :
          resp' = get_products(name, size, limit, offset)
    /\ UNCHANGED <<conn, products, orders, nextId, database_client, reachable, co, trav>>

\* GET /products/ with limit and offset left to their defaults
ListProductsDefault == ListProductsRequest({DEFAULT_LIMIT}, {DEFAULT_OFFSET})

\* GET /products/?limit=..&offset=..
ListProducts == ListProductsRequest(Limits, Offsets)

GetProductResp(product_id, st, body) ==
    [op |-> "get_product", product_id |-> product_id, status |-> st, body |-> body]

\* every exception raised in the try block, the 404 HTTPException included,
\* is caught by 'except Exception' and answered with 400
get_product(product_id) ==
    LET collection == get_collection_not_awaited("products")
        raised ==
            \/ ~HasCollectionMethods(collection)
            \/ ~ObjectIdValid(product_id)
            \/ ~StoreAnswers
            \/ ObjectIdOf(product_id) \notin DOMAIN products
    IN IF raised THEN GetProductResp(product_id, HTTP_400, None)
       ELSE GetProductResp(product_id, HTTP_200, ProductResponse(ObjectIdOf(product_id)))

GetProduct ==
    /\ ClientIdle
    /\ \E product_id \in IdStrings : resp' = get_product(product_id)
    /\ UNCHANGED <<conn, products, orders, nextId, database_client, reachable, co, trav>>

\* ProductCreate: name 1-200 characters, price > 0, 1-50 sizes
ProductCreateInputs ==
    {[name |-> in.name, price |-> in.price, sizes |-> s] :
        in \in ProductInputs, s \in SizeLists}

\* bodies violating a field constraint of ProductCreate or Size: the three of
\* the validation test, and one for each single constraint
InvalidProductBodies ==
    {[name |-> "", price |-> 10000, sizes |-> << >>],
     [name |-> "Tee", price |-> 0 - 5000, sizes |-> <<[size |-> "M", quantity |-> 1]>>],
     [name |-> "Tee", price |-> 10000, sizes |-> <<[size |-> "", quantity |-> 0 - 1]>>],
     [name |-> "", price |-> 1000, sizes |-> <<[size |-> "M", quantity |-> 1]>>],
     [name |-> "Tee", price |-> 0, sizes |-> <<[size |-> "M", quantity |-> 1]>>],
     [name |-> "Tee", price |-> 1000, sizes |-> << >>],
     [name |-> "Tee", price |-> 1000, sizes |-> <<[size |-> "", quantity |-> 1]>>],
     [name |-> "Tee", price |-> 1000, sizes |-> <<[size |-> "M", quantity |-> 0 - 1]>>]}

\* Size: size of 1-10 characters, quantity in 0..10000
SizeValid(sz) ==
    /\ Len(Chars[sz.size]) >= 1 /\ Len(Chars[sz.size]) <= 10
    /\ sz.quantity >= 0 /\ sz.quantity <= 10000

\* a validation that leaves the sizes unchecked
ProductCreateValid_sizes_unchecked(body) ==
    /\ Len(Chars[body.name]) >= 1 /\ Len(Chars[body.name]) <= 200
    /\ body.price > 0

\* the request body passes the validation of ProductCreate
ProductCreateValid(body) ==
    /\ Len(Chars[body.name]) >= 1 /\ Len(Chars[body.name]) <= 200
    /\ body.price > 0
    /\ Len(body.sizes) >= 1 /\ Len(body.sizes) <= 50
    /\ \A i \in 1..Len(body.sizes) : SizeValid(body.sizes[i])

\* ProductInDB declares id, name, price and sizes as required fields
ProductInDBValidates(fields) == {"id", "name", "price", "sizes"} \subseteq DOMAIN fields

CreateProductResp(product, st, id) ==
    [op |-> "create_product", product |-> product, status |-> st, id |-> id]

CreateProduct ==
    /\ ClientIdle
    /\ ProductsInserted < MaxProducts
    /\ \E product \in ProductCreateInputs \cup InvalidProductBodies :
          LET collection == get_collection_not_awaited("products")
              product_in_db == [name |-> product.name, price |-> product.price,
                                sizes |-> product.sizes]
          IN IF ~ProductCreateValid(product)
             THEN \* the body is rejected before create_product is called
                  /\ resp' = CreateProductResp(product, HTTP_422, None)
                  /\ UNCHANGED <<products, nextId>>
             ELSE IF \/ ~ProductInDBValidates(product_in_db)
                \/ ~HasCollectionMethods(collection)
                \/ ~StoreAnswers
             THEN /\ resp' = CreateProductResp(product, HTTP_500, None)
                  /\ UNCHANGED <<products, nextId>>
             ELSE /\ products' = [k \in DOMAIN products \cup {nextId} |->
                                     IF k = nextId THEN product_in_db ELSE products[k]]
                  /\ nextId' = nextId + 1
                  /\ resp' = CreateProductResp(product, HTTP_201, OidStr(nextId))
    /\ UNCHANGED <<conn, orders, database_client, reachable, co, trav>>

\* ------------------------------------------------- following the cursors
\* int(cursor) for a cursor string the service produced
CursorValue(cursor) ==
    CHOOSE n \in (0 - MaxLimit)..(MaxOffset + MaxLimit + MaxListed) : ToString(n) = cursor

\* the ids of the items a list response carries, in the order it carries them
DataIds(r) == [i \in 1..Len(r.data) |-> ObjectIdOf(r.data[i].id)]

\* what the list endpoint answers for the page the traversal asks for
TraversalPage(t) ==
    IF t.coll = "orders" THEN get_orders_by_user(t.user_id, t.limit, t.offset)
    ELSE get_products(None, None, t.limit, t.offset)

\* a client starts at offset 0
TraverseStart ==
    /\ ClientIdle
    /\ trav.pc # "run"
    /\ \E coll \in {"orders", "products"}, user_id \in Users, limit \in Limits :
          trav' = [pc |-> "run", coll |-> coll, user_id |-> user_id, limit |-> limit,
                   offset |-> 0, visited |-> << >>]
    /\ UNCHANGED <<conn, products, orders, nextId, database_client, reachable, co, resp>>

\* the client requests the page at its offset and follows the next cursor
TraverseStep ==
    /\ ClientIdle
    /\ trav.pc = "run"
    /\ LET r == TraversalPage(trav)
       IN /\ resp' = r
          /\ IF r.status # HTTP_200
             THEN trav' = [trav EXCEPT !.pc = "done"]
             ELSE IF r.page.next = None
             THEN trav' = [trav EXCEPT !.pc = "done", !.visited = @ \o DataIds(r)]
             ELSE trav' = [trav EXCEPT !.offset = CursorValue(r.page.next),
                                       !.visited = @ \o DataIds(r)]
    /\ database_client' = IF trav.coll = "orders" THEN AfterGetDatabase ELSE database_client
    /\ UNCHANGED <<conn, products, orders, nextId, reachable, co>>

\* ------------------------------------------------------------------ spec
Init ==
    /\ products = << >>
    /\ orders = << >>
    /\ nextId = 1
    /\ database_client = None
    /\ reachable = TRUE
    /\ co = IdleCo
    /\ trav = IdleTrav
    /\ conn = IdleConn
    /\ resp = NoResp

Next ==
    \/ InsertProduct
    \/ DeleteProduct
    \/ UpdateProduct
    \/ ToggleReachable
    \/ CreateOrderBegin
    \/ CreateOrderResolve
    \/ CreateOrderInsert
    \/ GetOrder
    \/ GetOrderStoreLost
    \/ ListOrdersByUserDefault
    \/ ListOrdersStoreLost
    \/ GetProduct
    \/ ListProductsDefault
    \/ CreateProduct
    \/ ResponseSent

Spec == Init /\ [][Next]_vars

\* ------------------------------------- concurrent first use of the client
NextConnect ==
    \/ \E r \in Requests : GetDatabaseEnter(r)
    \/ \E r \in Requests : PingDone(r)
    \/ \E r \in Requests : HandlerEnds(r)
    \/ close_mongo_connection
    \/ root
    \/ health_check
    \/ ToggleReachable
    \/ ResponseSent

SpecConnect == Init /\ [][NextConnect]_vars

\* ------------------------------------------- listing a filled collection
\* the order create_order stores for the single item {product 1, qty 2}
\* while product 1 costs 1000
ListedOrder ==
    [userId |-> FIXED_USER,
     items |-> <<[productId |-> OidStr(1), qty |-> 2, price |-> 1000]>>,
     total |-> 2000]

\* the product documents the scripts insert, Tee and Hat in turn
ListedProduct(k) ==
    IF k % 2 = 1 THEN [name |-> "Tee", price |-> 1000, sizes |-> CHOOSE s \in SizeLists : TRUE]
    ELSE [name |-> "Hat", price |-> 350, sizes |-> CHOOSE s \in SizeLists : TRUE]

\* the store after MaxProducts inserts, n orders for product 1 and the
\* deletion of some of the products
InitList ==
    /\ \E present \in SUBSET (1..MaxProducts) :
          products = [k \in present |-> ListedProduct(k)]
    /\ \E n \in 0..MaxListed :
          /\ orders = [k \in (MaxProducts + 1)..(MaxProducts + n) |-> ListedOrder]
          /\ nextId = MaxProducts + n + 1
    /\ database_client = None
    /\ reachable = TRUE
    /\ co = IdleCo
    /\ trav = IdleTrav
    /\ conn = IdleConn
    /\ resp = NoResp

NextList ==
    \/ ListOrdersByUser
    \/ ListProducts
    \/ TraverseStart
    \/ TraverseStep
    \/ ResponseSent

SpecList == InitList /\ [][NextList]_vars

\* =================================================================== claims

\* the item a resolving create_order looks up next
NextItem == co.req.items[Len(co.order_items) + 1]

\* the reference resolves to no product of the catalog
Unresolvable(item) ==
    \/ ~ObjectIdValid(item.productId)
    \/ ObjectIdOf(item.productId) \notin DOMAIN products

\* the step is the lookup of the next item of the create_order in flight
LookupStep ==
    /\ co.pc = "resolve"
    /\ Len(co.order_items) < Len(co.req.items)
    /\ co' # co

\* an identifier that never named a product
NeverAProduct(s) ==
    \/ ~ObjectIdValid(s)
    \/ ObjectIdOf(s) >= nextId
    \/ ObjectIdOf(s) \in DOMAIN orders

\* C1: create_order is all-or-nothing.  A lookup that finds its item
\* unresolvable (malformed id, or no product with that id), at whatever
\* position in the list, ends the request with a failure and leaves the orders
\* collection as it was; the orders collection changes only in the step that
\* follows the resolution of every item, by exactly one document; a response
\* other than 201 never comes with a change of the orders collection; and a
\* request naming an id that never was a product is never answered with 201.
C1_AllOrNothing ==
    /\ [][/\ (LookupStep /\ Unresolvable(NextItem))
             => /\ resp'.op = "create_order"
                /\ resp'.req = co.req
                /\ resp'.status \in {HTTP_404, HTTP_500}
                /\ co'.pc = "idle"
                /\ orders' = orders
          /\ (orders' # orders)
             => /\ co.pc = "resolve"
                /\ Len(co.order_items) = Len(co.req.items)
                /\ resp'.op = "create_order" /\ resp'.status = HTTP_201
                /\ DOMAIN orders' = DOMAIN orders \cup {ObjectIdOf(resp'.id)}
                /\ ObjectIdOf(resp'.id) \notin DOMAIN orders
                /\ \A k \in DOMAIN orders : orders'[k] = orders[k]
          /\ (resp' # resp /\ resp'.op = "create_order" /\ resp'.status # HTTP_201)
             => orders' = orders
         ]_vars
    /\ [](resp.op = "create_order"
          /\ (\E i \in 1..Len(resp.req.items) : NeverAProduct(resp.req.items[i].productId))
          => resp.status \in {HTTP_404, HTTP_500})

\* C1 witness: a two-item request whose first item resolved and whose second
\* item names no product was answered 404, and no order is stored
C1_Witness ==
    /\ resp.op = "create_order"
    /\ resp.status = HTTP_404
    /\ Len(resp.req.items) = 2
    /\ ~Unresolvable(resp.req.items[1])
    /\ ObjectIdValid(resp.req.items[2].productId)
    /\ Unresolvable(resp.req.items[2])
    /\ resp.detail = ProductNotFoundError(resp.req.items[2].productId)
    /\ orders = << >>

\* C2: the order a successful create_order stores has one item per request
\* item, in order, with the request's productId and qty and the price the
\* product had when the item was looked up, and its total is the exact sum
\* of price x qty over those items, a whole number of cents.
C2_TotalIsSumOfSnapshots ==
    [][/\ (LookupStep /\ co'.pc = "resolve")
          => /\ ~Unresolvable(NextItem)
             /\ co'.order_items =
                   Append(co.order_items,
                          [productId |-> NextItem.productId, qty |-> NextItem.qty,
                           price |-> products[ObjectIdOf(NextItem.productId)].price])
       /\ (resp' # resp /\ resp'.op = "create_order" /\ resp'.status = HTTP_201)
          => LET o == orders'[ObjectIdOf(resp'.id)]
             IN /\ o.items = co.order_items
                /\ Len(o.items) = Len(resp'.req.items)
                /\ \A i \in 1..Len(o.items) :
                      /\ o.items[i].productId = resp'.req.items[i].productId
                      /\ o.items[i].qty = resp'.req.items[i].qty
                /\ o.total = SumCents(o.items)
      ]_vars

\* C2 witness: the order [{Tee at 10.00, qty 2}, {Hat at 3.50, qty 1}] was
\* created with total 23.50
C2_Witness ==
    /\ resp.op = "create_order"
    /\ resp.status = HTTP_201
    /\ orders[ObjectIdOf(resp.id)].items =
          <<[productId |-> OidStr(1), qty |-> 2, price |-> 1000],
            [productId |-> OidStr(2), qty |-> 1, price |-> 350]>>
    /\ orders[ObjectIdOf(resp.id)].total = 2350

\* the get_order response is for an order the store holds, read while the
\* store answered
ReadOfStoredOrder ==
    /\ resp.op = "get_order"
    /\ ObjectIdValid(resp.order_id)
    /\ ObjectIdOf(resp.order_id) \in DOMAIN orders
    /\ reachable

\* C3: get_order on a stored order, with the store answering, returns 200
\* with one item view per stored item, in order; the view of an item whose
\* product is absent from the catalog carries the stored productId, the name
\* "Product Not Available" and the stored qty.
C3_MissingProductPlaceholder ==
    ReadOfStoredOrder
    => /\ resp.status = HTTP_200
       /\ LET stored == orders[ObjectIdOf(resp.order_id)].items
          IN /\ Len(resp.body.items) = Len(stored)
             /\ \A i \in 1..Len(stored) :
                   Unresolvable(stored[i])
                   => resp.body.items[i] =
                         [productDetails |-> [id |-> stored[i].productId,
                                              name |-> "Product Not Available"],
                          qty |-> stored[i].qty]

\* C3 witness: an order of two items was read after the product of its second
\* item was deleted
C3_Witness ==
    /\ ReadOfStoredOrder
    /\ resp.status = HTTP_200
    /\ Len(resp.body.items) = 2
    /\ resp.body.items[1].productDetails.name = "Tee"
    /\ resp.body.items[2].productDetails = [id |-> OidStr(2), name |-> PLACEHOLDER_NAME]
    /\ Unresolvable(orders[ObjectIdOf(resp.order_id)].items[2])

\* the total of the stored items at the prices the catalog has now
TotalAtCurrentPrices(o) ==
    SumCents([i \in 1..Len(o.items) |->
                 [price |-> CurrentPrice(o.items[i].productId), qty |-> o.items[i].qty]])

\* C4: a stored order is never changed, so its total stays the one written
\* at creation, and every 200 response of get_order and get_orders_by_user
\* carries that stored total for each order it shows, whatever the catalog
\* has become.
C4_TotalIsSnapshot ==
    /\ [][\A k \in DOMAIN orders : k \in DOMAIN orders' /\ orders'[k] = orders[k]]_vars
    /\ []((resp.op = "get_order" /\ resp.status = HTTP_200)
          => resp.body.total = orders[ObjectIdOf(resp.order_id)].total)
    /\ []((resp.op = "get_orders_by_user" /\ resp.status = HTTP_200)
          => \A i \in 1..Len(resp.data) :
                resp.data[i].total = orders[ObjectIdOf(resp.data[i].id)].total)

\* C4 witness: get_orders_by_user shows an order with its total of 23.50
\* although the catalog prices now give another sum
C4_Witness ==
    /\ resp.op = "get_orders_by_user"
    /\ resp.status = HTTP_200
    /\ Len(resp.data) >= 1
    /\ resp.data[1].total = 2350
    /\ TotalAtCurrentPrices(orders[ObjectIdOf(resp.data[1].id)]) # 2350

\* C5: get_order never answers 200 for a malformed id or for a well-formed id
\* no stored order has, whether or not the store answers; with a database
\* handle at hand the malformed id is answered 400, and with the store
\* answering the well-formed id without an order is answered 404.
C5_GetOrderBadIds ==
    resp.op = "get_order"
    => /\ ~ObjectIdValid(resp.order_id)
          => /\ resp.status # HTTP_200
             /\ database_client # None => resp.status = HTTP_400
       /\ (ObjectIdValid(resp.order_id) /\ ObjectIdOf(resp.order_id) \notin DOMAIN orders)
          => /\ resp.status # HTTP_200
             /\ reachable => resp.status = HTTP_404

\* C5 witness: with an order in the store, one request was answered 404 for
\* a well-formed id that is a product's id, not an order's
C5_Witness ==
    /\ resp.op = "get_order"
    /\ resp.status = HTTP_404
    /\ orders # << >>
    /\ ObjectIdOf(resp.order_id) \in DOMAIN products

\* C5 second witness state: a malformed id was answered 400
C5_WitnessMalformed ==
    /\ resp.op = "get_order"
    /\ resp.status = HTTP_400
    /\ resp.order_id = NotHexStr

\* C6: get_product answers 400 for a malformed id, 404 for a well-formed id
\* no product has, and otherwise 200 with exactly {id, name, price} of the
\* product (stated for requests made while the store answers).
C6_GetProductContract ==
    (resp.op = "get_product" /\ reachable)
    => /\ ~ObjectIdValid(resp.product_id) => resp.status = HTTP_400
       /\ (ObjectIdValid(resp.product_id)
           /\ ObjectIdOf(resp.product_id) \notin DOMAIN products)
          => resp.status = HTTP_404
       /\ (ObjectIdValid(resp.product_id)
           /\ ObjectIdOf(resp.product_id) \in DOMAIN products)
          => /\ resp.status = HTTP_200
             /\ resp.body = [id |-> resp.product_id,
                             name |-> products[ObjectIdOf(resp.product_id)].name,
                             price |-> products[ObjectIdOf(resp.product_id)].price]

\* C7: create_product with a valid body and a reachable store answers 201
\* with the id of a product document that now holds the body's fields.
C7_CreateProductPersists ==
    (resp.op = "create_product" /\ reachable /\ ProductCreateValid(resp.product))
    => /\ resp.status = HTTP_201
       /\ ObjectIdValid(resp.id)
       /\ ObjectIdOf(resp.id) \in DOMAIN products
       /\ products[ObjectIdOf(resp.id)].name = resp.product.name
       /\ products[ObjectIdOf(resp.id)].price = resp.product.price
       /\ products[ObjectIdOf(resp.id)].sizes = resp.product.sizes

\* C8: get_products with a reachable store answers 200 with the products
\* matching the name and size filters, in ascending id order, cut to the
\* offset/limit window, each as {id, name, price}.
C8_ListProductsContract ==
    (resp.op = "get_products" /\ reachable)
    => /\ resp.status = HTTP_200
       /\ LET ids == PageIds(ProductsMatching(resp.name, resp.size), resp.offset, resp.limit)
          IN /\ Len(resp.data) = Len(ids)
             /\ \A i \in 1..Len(ids) :
                   resp.data[i] = [id |-> OidStr(ids[i]), name |-> products[ids[i]].name,
                                   price |-> products[ids[i]].price]

\* the number of documents matching the query of the list response
TotalCountOf(r) ==
    IF r.op = "get_orders_by_user" THEN Cardinality(OrdersOfUser(r.user_id))
    ELSE Cardinality(ProductsMatching(r.name, r.size))

\* C9: in every 200 response of get_orders_by_user and get_products,
\* page.limit is the limit asked for; page.next is present iff
\* offset + limit < totalCount and is then the string of offset + limit;
\* page.previous is present iff offset > 0 and is then the string of
\* offset - limit.
C9_PageDescriptor ==
    (resp.op \in {"get_orders_by_user", "get_products"} /\ resp.status = HTTP_200)
    => /\ resp.page.limit = resp.limit
       /\ resp.page.next # None <=> resp.offset + resp.limit < TotalCountOf(resp)
       /\ resp.page.next # None => resp.page.next = ToString(resp.offset + resp.limit)
       /\ resp.page.previous # None <=> resp.offset > 0
       /\ resp.page.previous # None
          => resp.page.previous = ToString(resp.offset - resp.limit)

\* C9 witness: over five orders the page at limit 2, offset 2 carries
\* previous "0" and next "4"
C9_Witness ==
    /\ resp.op = "get_orders_by_user"
    /\ resp.status = HTTP_200
    /\ Cardinality(OrdersOfUser(resp.user_id)) = 5
    /\ resp.limit = 2
    /\ resp.offset = 2
    /\ resp.page = [next |-> "4", limit |-> 2, previous |-> "0"]

\* the ids a traversal of the collection has to visit, in ascending order
ToVisit(t) ==
    IF t.coll = "orders" THEN SortedSeq(OrdersOfUser(t.user_id))
    ELSE SortedSeq(DOMAIN products)

\* C10: a traversal that starts at offset 0 and follows the next cursors
\* until none is returned has visited every matching item exactly once, in
\* ascending id order (no write happens during the traversal).
C10_TraversalComplete ==
    trav.pc = "done" => trav.visited = ToVisit(trav)

\* the statement of C10 for get_orders_by_user alone
OrdersTraversalComplete ==
    (trav.pc = "done" /\ trav.coll = "orders") => trav.visited = ToVisit(trav)

\* a traversal of five orders at limit 2 has ended
OrdersTraversalDone ==
    /\ trav.pc = "done"
    /\ trav.coll = "orders"
    /\ trav.limit = 2
    /\ Len(trav.visited) = 5

\* the stored orders of the user the list response was asked for
StoredOrdersOf(r) == {k \in DOMAIN orders : orders[k].userId = r.user_id}

\* C11: every 200 response of get_orders_by_user carries only orders whose
\* stored userId is the requested one, in strictly ascending id order, and
\* they are the orders of that user ranked offset+1 .. offset+limit by id.
C11_OnlyOwnOrdersAscending ==
    (resp.op = "get_orders_by_user" /\ resp.status = HTTP_200)
    => LET own == StoredOrdersOf(resp)
           rest == IF Cardinality(own) > resp.offset
                   THEN Cardinality(own) - resp.offset ELSE 0
       IN /\ Len(resp.data) = IF rest < resp.limit THEN rest ELSE resp.limit
          /\ \A i \in 1..Len(resp.data) :
                /\ ObjectIdValid(resp.data[i].id)
                /\ ObjectIdOf(resp.data[i].id) \in own
                /\ resp.data[i].userId = resp.user_id
                /\ Cardinality({k \in own : k < ObjectIdOf(resp.data[i].id)})
                      = resp.offset + i - 1
          /\ \A i, j \in 1..Len(resp.data) :
                i < j => ObjectIdOf(resp.data[i].id) < ObjectIdOf(resp.data[j].id)

\* C11 witness: of four stored orders of user_1 the page at limit 2,
\* offset 1 shows the second and the third
C11_Witness ==
    /\ resp.op = "get_orders_by_user"
    /\ resp.status = HTTP_200
    /\ resp.user_id = "user_1"
    /\ Cardinality(DOMAIN orders) = 4
    /\ resp.limit = 2
    /\ resp.offset = 1
    /\ Len(resp.data) = 2
    /\ ObjectIdOf(resp.data[1].id) = MaxProducts + 2
    /\ ObjectIdOf(resp.data[2].id) = MaxProducts + 3

\* a request for another user, with orders in the store, got an empty page
C11_WitnessOtherUser ==
    /\ resp.op = "get_orders_by_user"
    /\ resp.status = HTTP_200
    /\ resp.user_id = "user_2"
    /\ orders # << >>
    /\ resp.data = << >>

\* C12: create_order stores "user_1" as userId whatever userId the request
\* carries, so every stored order belongs to "user_1" and every 200 response
\* of get_orders_by_user for another user is empty.
C12_CallerUserIdIgnored ==
    /\ [][(resp' # resp /\ resp'.op = "create_order" /\ resp'.status = HTTP_201)
          => /\ ObjectIdOf(resp'.id) \notin DOMAIN orders
             /\ orders'[ObjectIdOf(resp'.id)].userId = "user_1"]_vars
    /\ [](\A k \in DOMAIN orders : orders[k].userId = "user_1")
    /\ []((resp.op = "get_orders_by_user" /\ resp.status = HTTP_200
           /\ resp.user_id # "user_1")
          => resp.data = << >>)

\* C12 witness: a request submitted with userId "user_2" was answered 201 and
\* its order is stored under "user_1"
C12_Witness ==
    /\ resp.op = "create_order"
    /\ resp.status = HTTP_201
    /\ resp.req.userId = "user_2"
    /\ orders[ObjectIdOf(resp.id)].userId = "user_1"

\* with an order in the store, the list of "user_2" was answered 200, empty
C12_WitnessList ==
    /\ resp.op = "get_orders_by_user"
    /\ resp.status = HTTP_200
    /\ resp.user_id = "user_2"
    /\ resp.limit = DEFAULT_LIMIT
    /\ Cardinality(OrdersOfUser("user_1")) >= 1
    /\ resp.data = << >>

\* the create_order in flight holds a malformed productId at its next item
MalformedNext ==
    /\ co.pc = "resolve"
    /\ Len(co.order_items) < Len(co.req.items)
    /\ ~ObjectIdValid(NextItem.productId)

Holding == {r \in Requests : conn.req[r].pc = "has"}

\* C14: whatever the interleaving of the requests entering get_database, at
\* most one AsyncIOMotorClient is ever made and all requests holding a handle
\* hold one of the same client.
C14_ClientInitializedOnce ==
    /\ conn.made <= 1
    /\ \A r, s \in Holding : conn.req[r].client = conn.req[s].client

\* the part of C14 the code does ensure: at most one connect_to_mongo is
\* awaiting its ping at any time, and database_client is the client made last
\* or None
OneConnectInFlight ==
    /\ Cardinality({r \in Requests : conn.req[r].pc = "ping"}) <= 1
    /\ conn.cur \in {0, conn.made}
    /\ database_client = None <=> conn.cur = 0

\* two requests hold handles of different clients at the same time
TwoClientsInUse ==
    \E r, s \in Holding : conn.req[r].client # conn.req[s].client

\* the request answered by r passes validation and its identifiers are all
\* well-formed, so the handler gets as far as its store calls
WellFormedRequest(r) ==
    CASE r.op = "get_order" -> ObjectIdValid(r.order_id)
      [] r.op = "get_product" -> ObjectIdValid(r.product_id)
      [] r.op = "create_order" ->
            \A i \in 1..Len(r.req.items) : ObjectIdValid(r.req.items[i].productId)
      [] r.op = "create_product" -> ProductCreateValid(r.product)
      [] OTHER -> TRUE

\* C15: a request of any of the six operations that is answered while the
\* store is unreachable, its identifiers being well-formed, is answered with
\* a 5xx status (never 2xx, never 4xx).
C15_StoreErrorsAre5xx ==
    (resp # NoResp /\ ~reachable /\ WellFormedRequest(resp))
    => resp.status = HTTP_500

\* the statement of C15 for the five operations other than get_product
StoreErrorsAre5xxExceptGetProduct ==
    (resp # NoResp /\ resp.op # "get_product" /\ ~reachable /\ WellFormedRequest(resp))
    => resp.status = HTTP_500

\* each of the five operations was answered 500 with the store unreachable
StoreError500Seen(op) ==
    resp.op = op /\ ~reachable /\ WellFormedRequest(resp) /\ resp.status = HTTP_500

\* the body violates a field constraint: empty name, non-positive price,
\* empty sizes list, empty size label or negative quantity
ViolatesFieldConstraint(body) ==
    \/ body.name = ""
    \/ body.price <= 0
    \/ body.sizes = << >>
    \/ \E i \in 1..Len(body.sizes) :
          body.sizes[i].size = "" \/ body.sizes[i].quantity < 0

\* C16: a create_product request whose body violates a field constraint is
\* answered 422 and the products collection is left as it was.
C16_InvalidProductRejected ==
    [][(resp' # resp /\ resp'.op = "create_product"
        /\ ViolatesFieldConstraint(resp'.product))
       => /\ resp'.status = HTTP_422
          /\ products' = products
          /\ nextId' = nextId]_vars

\* C16 witness: a body whose only fault is a negative quantity was answered
\* 422, with a product in the catalog
C16_Witness ==
    /\ resp.op = "create_product"
    /\ resp.status = HTTP_422
    /\ resp.product.name = "Tee"
    /\ resp.product.price = 1000
    /\ resp.product.sizes = <<[size |-> "M", quantity |-> 0 - 1]>>
    /\ products # << >>

\* C17: a stored order is never modified or removed.  Every step keeps each
\* order document of the collection, with the same userId, the same items
\* (productId, qty, price) and the same total, and the number of orders never
\* goes down.
C17_OrdersImmutable ==
    [][/\ DOMAIN orders \subseteq DOMAIN orders'
       /\ Cardinality(DOMAIN orders') >= Cardinality(DOMAIN orders)
       /\ \A k \in DOMAIN orders :
             /\ orders'[k].userId = orders[k].userId
             /\ orders'[k].total = orders[k].total
             /\ Len(orders'[k].items) = Len(orders[k].items)
             /\ \A i \in 1..Len(orders[k].items) :
                   /\ orders'[k].items[i].productId = orders[k].items[i].productId
                   /\ orders'[k].items[i].qty = orders[k].items[i].qty
                   /\ orders'[k].items[i].price = orders[k].items[i].price]_vars

\* C17 witness: a second order has been created after the first, the product
\* of the first order has changed price since, and the first order is read
\* back with the items and total it was stored with
C17_Witness ==
    /\ Cardinality(DOMAIN orders) = 2
    /\ resp.op = "get_order"
    /\ resp.status = HTTP_200
    /\ \E k \in DOMAIN orders :
          /\ ObjectIdOf(resp.order_id) = k
          /\ \E j \in DOMAIN orders : j > k
          /\ orders[k].items[1].price # CurrentPrice(orders[k].items[1].productId)
          /\ orders[k].total = SumCents(orders[k].items)

\* the step is one of the create_order in flight: a lookup or the insert
CreateOrderStep == co.pc = "resolve" /\ co' # co

\* C18: create_order resolves, then writes, and does not retry.  The orders
\* collection changes only in a create_order step taken with every item
\* resolved, which adds exactly one document and is answered 201; a
\* create_order step never writes to the products collection; and a lookup of
\* a well-formed id or an insert that meets an unreachable store ends the
\* request at once with 500, having written nothing.
C18_ResolveThenWriteNoRetry ==
    [][/\ (orders' # orders)
          => /\ CreateOrderStep
             /\ Len(co.order_items) = Len(co.req.items)
             /\ Cardinality(DOMAIN orders' \ DOMAIN orders) = 1
             /\ DOMAIN orders \subseteq DOMAIN orders'
             /\ resp'.op = "create_order" /\ resp'.status = HTTP_201
       /\ CreateOrderStep => products' = products
       /\ (CreateOrderStep /\ co'.pc = "resolve")
          => /\ orders' = orders
             /\ Len(co'.order_items) = Len(co.order_items) + 1
       /\ (CreateOrderStep /\ ~reachable
           /\ (Len(co.order_items) < Len(co.req.items) => ObjectIdValid(NextItem.productId)))
          => /\ resp'.op = "create_order"
             /\ resp'.req = co.req
             /\ resp'.status = HTTP_500
             /\ co'.pc = "idle"
             /\ orders' = orders
             /\ nextId' = nextId
       /\ (resp' # resp /\ resp'.op = "create_order")
          => /\ co'.pc = "idle"
             /\ resp'.status = HTTP_201
                => Cardinality(DOMAIN orders') = Cardinality(DOMAIN orders) + 1
             /\ resp'.status # HTTP_201 => orders' = orders
      ]_vars

\* C18 witness: a request for two existing products was answered 500 because
\* the store stopped answering under it, and no order is stored
C18_Witness ==
    /\ resp.op = "create_order"
    /\ resp.status = HTTP_500
    /\ database_client # None
    /\ ~reachable
    /\ Len(resp.req.items) = 2
    /\ \A i \in 1..2 : ~Unresolvable(resp.req.items[i])
    /\ orders = << >>

\* the order document a step adds to the collection
NewOrder == orders'[CHOOSE k \in DOMAIN orders' : k \notin DOMAIN orders]

\* C19 as stated: in the step that stores an order, every productId of the
\* order names a product the catalog holds at that moment.
C19_ProductsExistAtWrite ==
    [][(orders' # orders)
       => \A i \in 1..Len(NewOrder.items) :
             /\ ObjectIdValid(NewOrder.items[i].productId)
             /\ ObjectIdOf(NewOrder.items[i].productId) \in DOMAIN products]_vars

\* C19 amended: every productId of a stored order named a product the catalog
\* held when create_order looked that item up; the items stored are the items
\* so resolved, in order.
C19_ProductsExistAtLookup ==
    [][/\ (LookupStep /\ co'.pc = "resolve")
          => /\ ObjectIdValid(NextItem.productId)
             /\ ObjectIdOf(NextItem.productId) \in DOMAIN products
             /\ Len(co'.order_items) = Len(co.order_items) + 1
             /\ SubSeq(co'.order_items, 1, Len(co.order_items)) = co.order_items
             /\ co'.order_items[Len(co'.order_items)].productId = NextItem.productId
       /\ (orders' # orders)
          => /\ Len(NewOrder.items) = Len(co.req.items)
             /\ \A i \in 1..Len(NewOrder.items) :
                   /\ NewOrder.items[i].productId = co.order_items[i].productId
                   /\ NewOrder.items[i].productId = co.req.items[i].productId
      ]_vars

\* C19 witness: an order was just stored (201) although the product of one of
\* its items had been deleted after its lookup
C19_Witness ==
    /\ resp.op = "create_order"
    /\ resp.status = HTTP_201
    /\ \E i \in 1..Len(orders[ObjectIdOf(resp.id)].items) :
          Unresolvable(orders[ObjectIdOf(resp.id)].items[i])

\* C20: whatever price changes and deletions run between the steps of a
\* create_order, the price stored for an item is the price its product held
\* at the moment of its lookup, a moment between the start of the request and
\* its write; a change of the catalog leaves the prices already captured
\* untouched; and the stored order carries exactly the captured items, with a
\* total that is the sum of its own stored price x qty in whole cents.
C20_NonCorruptUnderConcurrency ==
    [][/\ (LookupStep /\ co'.pc = "resolve")
          => /\ co'.order_items[Len(co'.order_items)].price
                   = products[ObjectIdOf(NextItem.productId)].price
             /\ co'.order_items[Len(co'.order_items)].qty = NextItem.qty
             /\ \A j \in 1..Len(co.order_items) : co'.order_items[j] = co.order_items[j]
       /\ (products' # products) => (co' = co /\ orders' = orders)
       /\ (orders' # orders)
          => /\ co.pc = "resolve"
             /\ NewOrder.items = co.order_items
             /\ NewOrder.total = SumCents(NewOrder.items)
      ]_vars

\* C20 witness: an order of two items was just stored; the price of its first
\* product was changed after its lookup, and the order holds the price looked
\* up and the total of its own items
C20_Witness ==
    /\ resp.op = "create_order"
    /\ resp.status = HTTP_201
    /\ Len(orders[ObjectIdOf(resp.id)].items) = 2
    /\ ~Unresolvable(orders[ObjectIdOf(resp.id)].items[1])
    /\ orders[ObjectIdOf(resp.id)].items[1].price
          # CurrentPrice(orders[ObjectIdOf(resp.id)].items[1].productId)
    /\ orders[ObjectIdOf(resp.id)].total = SumCents(orders[ObjectIdOf(resp.id)].items)

\* C21: the name shown for an order item is the live one and the price is the
\* stored one.  In every 200 response of get_order, the view of an item whose
\* product is in the catalog carries the name the catalog has for it at the
\* read; the total shown is the stored total; and every stored order keeps
\* the total of its own stored prices, whatever the catalog has become.
C21_LiveNameSnapshotPrice ==
    /\ (resp.op = "get_order" /\ resp.status = HTTP_200)
       => LET stored == orders[ObjectIdOf(resp.order_id)]
          IN /\ Len(resp.body.items) = Len(stored.items)
             /\ \A i \in 1..Len(stored.items) :
                   ~Unresolvable(stored.items[i])
                   => /\ resp.body.items[i].productDetails.id = stored.items[i].productId
                      /\ resp.body.items[i].productDetails.name
                            = products[ObjectIdOf(stored.items[i].productId)].name
             /\ resp.body.total = stored.total
    /\ \A k \in DOMAIN orders : orders[k].total = SumCents(orders[k].items)

\* C21 witness: an item stored at the price 10.00 its product had as "Tee" is
\* shown under the name "Hat" the product has at the read, and the total is
\* still the one of the stored price
C21_Witness ==
    /\ resp.op = "get_order"
    /\ resp.status = HTTP_200
    /\ orders[ObjectIdOf(resp.order_id)].items[1].price = 1000
    /\ resp.body.items[1].productDetails.name = "Hat"
    /\ resp.body.total = SumCents(orders[ObjectIdOf(resp.order_id)].items)
    /\ resp.body.total # TotalAtCurrentPrices(orders[ObjectIdOf(resp.order_id)])

\* the step makes an AsyncIOMotorClient: a connection attempt
ConnectionAttempt == conn'.made # conn.made

RootAfterClose ==
    /\ resp = [op |-> "root", status |-> HTTP_200]
    /\ conn.cur \in conn.closed

\* /health answered 200 before any connection attempt
HealthNeverConnected ==
    /\ resp = [op |-> "health_check", status |-> HTTP_200]
    /\ conn.made = 0

\* C23: in the state a 200 page of get_orders_by_user was computed in,
\* get_order of the id of each order of the page answers 200 with the very
\* view the page shows: id, userId, items (productDetails and qty) and total.
C23_ListViewEqualsGetOrder ==
    (resp.op = "get_orders_by_user" /\ resp.status = HTTP_200)
    => \A i \in 1..Len(resp.data) :
          /\ get_order(resp.data[i].id).status = HTTP_200
          /\ get_order(resp.data[i].id).body = resp.data[i]

\* C23 witness: the page shows an order of two items, one joined with its
\* product's name and one with the placeholder
C23_Witness ==
    /\ resp.op = "get_orders_by_user"
    /\ resp.status = HTTP_200
    /\ Len(resp.data) >= 1
    /\ Len(resp.data[1].items) = 2
    /\ resp.data[1].items[1].productDetails.name \in {"Tee", "Hat"}
    /\ resp.data[1].items[2].productDetails.name = PLACEHOLDER_NAME

\* C24: the round trip of an order.  A 201 response carries an id newer than
\* every other order's; with the store answering, get_order of that id
\* answers 200 with that id and one item view per request item, in the
\* request's order, the k-th carrying the k-th productId and qty (a productId
\* given twice gives two views); and every later 200 response of get_order
\* shows the stored items of its order one for one, in order.
C24_CreateThenRead ==
    /\ (resp.op = "create_order" /\ resp.status = HTTP_201)
       => /\ ObjectIdOf(resp.id) \in DOMAIN orders
          /\ \A k \in DOMAIN orders : k # ObjectIdOf(resp.id) => k < ObjectIdOf(resp.id)
          /\ reachable
             => LET r == get_order(resp.id)
                IN /\ r.status = HTTP_200
                   /\ r.body.id = resp.id
                   /\ Len(r.body.items) = Len(resp.req.items)
                   /\ \A k \in 1..Len(resp.req.items) :
                         /\ r.body.items[k].productDetails.id = resp.req.items[k].productId
                         /\ r.body.items[k].qty = resp.req.items[k].qty
    /\ (resp.op = "get_order" /\ resp.status = HTTP_200)
       => LET stored == orders[ObjectIdOf(resp.order_id)].items
          IN /\ resp.body.id = resp.order_id
             /\ Len(resp.body.items) = Len(stored)
             /\ \A k \in 1..Len(stored) :
                   /\ resp.body.items[k].productDetails.id = stored[k].productId
                   /\ resp.body.items[k].qty = stored[k].qty

\* C24 witness: an order created with the same product in both of its items
\* is read back with two item views of that product
C24_Witness ==
    /\ resp.op = "get_order"
    /\ resp.status = HTTP_200
    /\ LET stored == orders[ObjectIdOf(resp.order_id)].items
       IN /\ Len(stored) = 2
          /\ stored[1].productId = stored[2].productId
          /\ Len(resp.body.items) = 2
          /\ resp.body.items[1].productDetails.id = stored[1].productId
          /\ resp.body.items[2].productDetails.id = stored[1].productId

\* an order of two items of the same product was just created
C24_WitnessCreate ==
    /\ resp.op = "create_order"
    /\ resp.status = HTTP_201
    /\ Len(resp.req.items) = 2
    /\ resp.req.items[1].productId = resp.req.items[2].productId
    /\ reachable

\* the Query constraint of the list endpoints on offset: ge=0
OffsetAccepted(offset) == offset >= 0

\* C25: a previous cursor carried by a 200 list response is an offset the
\* endpoint accepts: its value is >= 0.
C25_PreviousCursorValid ==
    (resp.op \in {"get_orders_by_user", "get_products"} /\ resp.status = HTTP_200
     /\ resp.page.previous # None)
    => OffsetAccepted(CursorValue(resp.page.previous))

\* the part of C25 that holds: the previous cursor is valid whenever the
\* offset asked for is at least the limit
PreviousCursorValidFromLimitOn ==
    (resp.op \in {"get_orders_by_user", "get_products"} /\ resp.status = HTTP_200
     /\ resp.page.previous # None /\ resp.offset >= resp.limit)
    => OffsetAccepted(CursorValue(resp.page.previous))

\* a page asked for at offset 1 with limit 2 carries the previous cursor "-1"
NegativePreviousCursor ==
    /\ resp.op = "get_orders_by_user"
    /\ resp.status = HTTP_200
    /\ resp.offset = 1
    /\ resp.limit = 2
    /\ resp.page.previous = "-1"

\* C26: with nothing written meanwhile, a get_orders_by_user request is
\* answered 200 (never 404) with exactly min(limit, max(0, N - offset))
\* orders, N being the number of orders of the user; for N = 0 or
\* offset >= N the data are empty and no next cursor is given; and when a
\* next cursor is given, the page at that offset is not empty.
C26_PageSize ==
    resp.op = "get_orders_by_user"
    => /\ resp.status # HTTP_404
       /\ reachable => resp.status = HTTP_200
       /\ resp.status = HTTP_200
          => LET N == Cardinality(StoredOrdersOf(resp))
                 left == IF N > resp.offset THEN N - resp.offset ELSE 0
             IN /\ Len(resp.data) = IF resp.limit < left THEN resp.limit ELSE left
                /\ (N = 0 \/ resp.offset >= N)
                   => (resp.data = << >> /\ resp.page.next = None)
                /\ resp.page.next # None
                   => LET following == get_orders_by_user(resp.user_id, resp.limit,
                                                          CursorValue(resp.page.next))
                      IN /\ following.status = HTTP_200
                         /\ following.data # << >>

\* C26 witness: the page at offset 4 of a user with three orders is empty,
\* 200, without next cursor
C26_Witness ==
    /\ resp.op = "get_orders_by_user"
    /\ resp.status = HTTP_200
    /\ Cardinality(StoredOrdersOf(resp)) = 3
    /\ resp.offset = 4
    /\ resp.data = << >>
    /\ resp.page.next = None

\* the page of a user without orders is empty, 200, without cursors
C26_WitnessNoOrders ==
    /\ resp.op = "get_orders_by_user"
    /\ resp.status = HTTP_200
    /\ resp.user_id = "user_2"
    /\ resp.offset = 0
    /\ resp.data = << >>
    /\ resp.page = [next |-> None, limit |-> resp.limit, previous |-> None]

\* the view carries the placeholder name
IsPlaceholder(view) == view.productDetails.name = "Product Not Available"

\* C27: the placeholder stands only for a product that is absent or whose id
\* is malformed.  In a 200 response of get_order or get_orders_by_user every
\* item view with the placeholder belongs to a stored item that resolves to
\* no product; and a read of stored orders that finds the store unreachable
\* at the lookup of a product is answered 500 without any order view.
C27_PlaceholderOnlyForMissing ==
    /\ (resp.op = "get_order" /\ resp.status = HTTP_200)
       => \A i \in 1..Len(resp.body.items) :
             IsPlaceholder(resp.body.items[i])
             => Unresolvable(orders[ObjectIdOf(resp.order_id)].items[i])
    /\ (resp.op = "get_orders_by_user" /\ resp.status = HTTP_200)
       => \A m \in 1..Len(resp.data) : \A i \in 1..Len(resp.data[m].items) :
             IsPlaceholder(resp.data[m].items[i])
             => Unresolvable(orders[ObjectIdOf(resp.data[m].id)].items[i])
    /\ (resp.op = "get_order" /\ ~reachable /\ ObjectIdValid(resp.order_id)
        /\ ObjectIdOf(resp.order_id) \in DOMAIN orders)
       => (resp.status = HTTP_500 /\ resp.body = None)
    /\ (resp.op = "get_orders_by_user" /\ ~reachable)
       => (resp.status = HTTP_500 /\ resp.data = None)

\* C27 witness: get_order of a stored order whose products are all in the
\* catalog was answered 500, the store having stopped answering with a
\* client connected
C27_Witness ==
    /\ resp.op = "get_order"
    /\ resp.status = HTTP_500
    /\ database_client # None
    /\ ~reachable
    /\ ObjectIdValid(resp.order_id)
    /\ ObjectIdOf(resp.order_id) \in DOMAIN orders
    /\ \A i \in 1..Len(orders[ObjectIdOf(resp.order_id)].items) :
          ~Unresolvable(orders[ObjectIdOf(resp.order_id)].items[i])

\* the operations that only read
ReadOps == {"get_order", "get_orders_by_user", "get_product", "get_products"}

\* C28: frame conditions.  A step answering get_order, get_orders_by_user,
\* get_product or get_products changes neither collection; no step of
\* create_order changes the products collection (stock quantities included);
\* a step answering create_product leaves the orders collection unchanged.
C28_FrameConditions ==
    [][/\ (resp' # resp /\ resp'.op \in ReadOps)
          => (products' = products /\ orders' = orders /\ nextId' = nextId)
       /\ (co' # co \/ (resp' # resp /\ resp'.op = "create_order"))
          => products' = products
       /\ (resp' # resp /\ resp'.op = "create_product")
          => orders' = orders
      ]_vars

\* C28 witness: an order for two units of a product was just stored and the
\* product's sizes hold the quantities they held before
C28_Witness ==
    /\ resp.op = "create_order"
    /\ resp.status = HTTP_201
    /\ resp.req.items[1] = [productId |-> OidStr(1), qty |-> 2]
    /\ 1 \in DOMAIN products
    /\ products[1].sizes \in SizeLists

\* request r leaves get_database in this step with a database handle
GetsHandle(r) == conn.req[r].pc # "has" /\ conn'.req[r].pc = "has"

\* C29: a failed lazy connection is not sticky.  For every request r: when
\* its ping fails, database_client is None after the step and r gets the
\* exception; when it enters get_database with database_client None it makes
\* a new client and pings it; when its ping returns with the store reachable
\* (and the client not closed meanwhile) it gets a handle; and whenever it
\* gets a handle, database_client is bound and the handle is of the client
\* bound to it.
C29_FailedConnectNotSticky ==
    [][\A r \in Requests :
          /\ (conn.req[r].pc = "ping" /\ conn'.req[r].pc = "failed")
             => (database_client' = None /\ conn'.cur = 0)
          /\ (conn.req[r].pc = "ping" /\ conn'.req[r].pc # "ping" /\ ~reachable)
             => conn'.req[r].pc = "failed"
          /\ (conn.req[r].pc = "idle" /\ conn'.req[r].pc # "idle" /\ database_client = None)
             => /\ conn'.req[r].pc = "ping"
                /\ conn'.made = conn.made + 1
                /\ conn'.req[r].client = conn'.made
                /\ database_client' # None
          /\ (conn.req[r].pc = "ping" /\ conn'.req[r].pc # "ping" /\ reachable
              /\ conn.cur \notin conn.closed)
             => conn'.req[r].pc = "has"
          /\ GetsHandle(r)
             => /\ database_client' # None
                /\ conn'.cur # 0
                /\ conn'.req[r].client = conn'.cur
      ]_vars

\* C29 witness: after a first connection attempt failed, a request holds a
\* handle of the client made by a later attempt
C29_Witness ==
    /\ conn.closed = {}
    /\ database_client # None
    /\ \E r \in Requests :
          /\ conn.req[r].pc = "has"
          /\ conn.req[r].client >= 2
          /\ conn.req[r].client = conn.cur

\* C30: get_database never hands out a handle of a closed client: a request
\* that gets a handle gets one of a client close_mongo_connection has not
\* closed.
C30_NoHandleOfClosedClient ==
    [][\A r \in Requests :
          GetsHandle(r) => conn'.req[r].client \notin conn'.closed]_vars

\* a request holds a handle it got after the client was closed, and no other
\* client was made
HandleAfterClose ==
    /\ conn.made = 1
    /\ conn.closed = {1}
    /\ \E r \in Requests : conn.req[r] = [pc |-> "has", client |-> 1]
    /\ \A r \in Requests : conn.req[r].pc \in {"idle", "has"}

====
